---- MODULE Spec2Model ----
(***************************************************************************)
(* Model of the COPD QC reference backend: the in-memory DataManager store *)
(* (data_manager.py) and the rule based QCEngine (qc_engine.py).           *)
(*                                                                         *)
(* Strings are sequences of one-character strings so that strip, lower,   *)
(* substring search, numeric parsing and str() are computed, not assumed.  *)
(* The two Hangul characters of the "all" filter value are written as the  *)
(* tokens "jeon" and "che".                                                *)
(*                                                                         *)
(* A cell is a record [t, n, s]:                                           *)
(*   t = "na"  a missing value (NaN)                                       *)
(*   t = "i"   a Python/NumPy integer n                                    *)
(*   t = "f"   a float, n is the value in tenths (15 is 1.5)               *)
(*   t = "s"   a string s                                                  *)
(***************************************************************************)
EXTENDS Integers, Sequences, FiniteSets, TLC

VARIABLES file, df, loaded, op, args, res, qc, pc, local, seen

vars == <<file, df, loaded, op, args, res, qc, pc, local, seen>>

(***************************************************************************)
(* Bounds of the model.                                                    *)
(***************************************************************************)
MaxQCRows == 2
MaxSummaryRows == 3
MaxDataRows == 3
MaxFilterRows == 2
MaxStoreRows == 2
MaxPage == 3
MaxLimit == 2

(***************************************************************************)
(* Cells and strings.                                                      *)
(***************************************************************************)
NA == [t |-> "na", n |-> 0, s |-> <<>>]
I(k) == [t |-> "i", n |-> k, s |-> <<>>]
F(tenths) == [t |-> "f", n |-> tenths, s |-> <<>>]
T(chars) == [t |-> "s", n |-> 0, s |-> chars]

IsNa(c) == c.t = "na"
IsNum(c) == c.t \in {"i", "f"}
IsStr(c) == c.t = "s"
Tenths(c) == IF c.t = "i" THEN 10 * c.n ELSE c.n

\* Python ==, as pandas applies it cell by cell: NaN equals nothing, a number
\* never equals a string, 1 == 1.0.
CellEq(a, b) ==
    \/ IsNum(a) /\ IsNum(b) /\ Tenths(a) = Tenths(b)
    \/ IsStr(a) /\ IsStr(b) /\ a.s = b.s

Digits == <<"0", "1", "2", "3", "4", "5", "6", "7", "8", "9">>

RECURSIVE StrNat(_)
StrNat(k) == IF k < 10 THEN <<Digits[k + 1]>>
             ELSE StrNat(k \div 10) \o <<Digits[(k % 10) + 1]>>

StrInt(k) == IF k < 0 THEN <<"-">> \o StrNat(-k) ELSE StrNat(k)

Abs(k) == IF k < 0 THEN -k ELSE k

\* str() of a float held in tenths: 390 -> "39.0", 15 -> "1.5".
StrFloat(n) ==
    (IF n < 0 THEN <<"-">> ELSE <<>>)
        \o StrNat(Abs(n) \div 10) \o <<".">> \o <<Digits[(Abs(n) % 10) + 1]>>

\* Python str(value) / Series.astype(str) of one cell.
Str(c) ==
    CASE c.t = "s" -> c.s
      [] c.t = "i" -> StrInt(c.n)
      [] c.t = "f" -> StrFloat(c.n)
      [] OTHER -> <<"n", "a", "n">>

Unknown == <<"U", "n", "k", "n", "o", "w", "n">>
Missing == <<"M", "i", "s", "s", "i", "n", "g">>

(***************************************************************************)
(* The DataFrame: n rows, and for each known column name whether it is a   *)
(* column of the frame and its cells.                                      *)
(***************************************************************************)
ColumnOrder == <<"SUBJ_ID", "LOCATION_NAME", "VISIT_NM", "SUBJ_STATUS",
                 "ENROLL_COPDNOTCOPD", "AGE">>
ColNames == {ColumnOrder[k] : k \in 1..Len(ColumnOrder)}

Absent == [present |-> FALSE, dtype |-> "", cells |-> <<>>]
Col(dt, cells) == [present |-> TRUE, dtype |-> dt, cells |-> cells]

\* self.df is None until the first upload.
NoFrame == [none |-> TRUE, n |-> 0, data |-> [c \in ColNames |-> Absent]]

HasCol(d, c) == c \in ColNames /\ d.data[c].present
Cells(d, c) == d.data[c].cells
dtype(d, c) == d.data[c].dtype
Rows(d) == 1..d.n

\* df.columns.tolist()
columns(d) == SelectSeq(ColumnOrder, LAMBDA c : d.data[c].present)

\* The dtype read_excel / read_parquet give a column; a frame keeps it for
\* the column whatever rows are selected later.
infer_dtype(cells) ==
    IF \E k \in 1..Len(cells) : IsStr(cells[k]) THEN "object"
    ELSE IF Len(cells) = 0 THEN "object"
    ELSE IF \E k \in 1..Len(cells) : cells[k].t \in {"f", "na"} THEN "float64"
    ELSE "int64"

\* A numeric column holds one machine type: integers next to a float or a
\* missing value are stored as floats.
Coerce(cells) ==
    IF infer_dtype(cells) = "float64"
    THEN [k \in 1..Len(cells) |->
            IF cells[k].t = "i" THEN F(10 * cells[k].n) ELSE cells[k]]
    ELSE cells

\* df[mask] / df.iloc[...]: the rows at the given positions, in that order.
TakeRows(d, idx) ==
    [none |-> FALSE, n |-> Len(idx),
     data |-> [c \in ColNames |->
                 IF d.data[c].present
                 THEN Col(d.data[c].dtype,
                          [k \in 1..Len(idx) |-> d.data[c].cells[idx[k]]])
                 ELSE Absent]]

RECURSIVE TrueIndices(_, _)
TrueIndices(mask, k) ==
    IF k > Len(mask) THEN <<>>
    ELSE (IF mask[k] THEN <<k>> ELSE <<>>) \o TrueIndices(mask, k + 1)

(***************************************************************************)
(* convert_to_parquet: the frame read from the uploaded file becomes the   *)
(* store's dataset.                                                        *)
(***************************************************************************)
convert_to_parquet(f) ==
    [none |-> FALSE, n |-> f.n,
     data |-> [c \in ColNames |->
                 IF f.data[c].present
                 THEN Col(infer_dtype(f.data[c].cells), Coerce(f.data[c].cells))
                 ELSE Absent]]

(***************************************************************************)
(* QCEngine: the rule registry.                                            *)
(***************************************************************************)
rules == <<
    [id |-> "SUBJ-MISS-001", domain |-> "subject", type |-> "MISS",
     severity |-> "Critical", variable |-> "SUBJ_ID",
     description |-> "Subject ID must be present"],
    [id |-> "SUBJ-MISS-002", domain |-> "subject", type |-> "MISS",
     severity |-> "Critical", variable |-> "LOCATION_NAME",
     description |-> "Location Name must be present"],
    [id |-> "AGE-RANGE-001", domain |-> "subject", type |-> "RANGE",
     severity |-> "Medium", variable |-> "AGE",
     description |-> "Age should be between 40 and 100"],
    [id |-> "ENROLL-VAL-001", domain |-> "function", type |-> "VALUE",
     severity |-> "High", variable |-> "ENROLL_COPDNOTCOPD",
     description |-> "Enrollment status must be 1, 2, or 3"] >>

\* The outcome of a rule's check lambda: it raised, or a boolean mask.
Raised == [raised |-> TRUE, mask |-> <<>>]
Mask(m) == [raised |-> FALSE, mask |-> m]
AllFalse(d) == Mask([k \in Rows(d) |-> FALSE])

\* df[col].isna(); df[col] raises KeyError when col is no column.
check_isna(d, col) ==
    IF ~HasCol(d, col) THEN Raised
    ELSE Mask([k \in Rows(d) |-> IsNa(Cells(d, col)[k])])

\* (df['AGE'] < 40) | (df['AGE'] > 100): comparing a str cell with an int
\* raises TypeError; NaN compares False.
AgeLow == 40
AgeHigh == 100
check_age(d) ==
    IF ~HasCol(d, "AGE") THEN AllFalse(d)
    ELSE IF \E k \in Rows(d) : IsStr(Cells(d, "AGE")[k]) THEN Raised
    ELSE Mask([k \in Rows(d) |->
                 LET c == Cells(d, "AGE")[k] IN
                 IsNum(c) /\ (Tenths(c) < 10 * AgeLow \/ Tenths(c) > 10 * AgeHigh)])

\* Series.isin([1, 2, 3])
EnrollAllowed == {1, 2, 3}
Mutant_isin_enroll(c) ==
    IsNum(c) /\ \E v \in EnrollAllowed \cup {4} : Tenths(c) = 10 * v

isin_enroll(c) == IsNum(c) /\ \E v \in EnrollAllowed : Tenths(c) = 10 * v

check_enroll(d) ==
    IF ~HasCol(d, "ENROLL_COPDNOTCOPD") THEN AllFalse(d)
    ELSE Mask([k \in Rows(d) |->
                 LET c == Cells(d, "ENROLL_COPDNOTCOPD")[k] IN
                 ~isin_enroll(c) /\ ~IsNa(c)])

check(rule, d) ==
    CASE rule.id = "SUBJ-MISS-001" -> check_isna(d, "SUBJ_ID")
      [] rule.id = "SUBJ-MISS-002" -> check_isna(d, "LOCATION_NAME")
      [] rule.id = "AGE-RANGE-001" -> check_age(d)
      [] rule.id = "ENROLL-VAL-001" -> check_enroll(d)

\* DataFrame.iterrows() hands each row over as one Series of a common dtype:
\* with no object column and at least one float column, integers are floats.
RowUpcast(d) ==
    /\ \A c \in ColNames : HasCol(d, c) => dtype(d, c) # "object"
    /\ \E c \in ColNames : HasCol(d, c) /\ dtype(d, c) = "float64"

iterrow(d, k, c) ==
    LET v == Cells(d, c)[k] IN
    IF RowUpcast(d) /\ v.t = "i" THEN F(10 * v.n) ELSE v

\* row.get(key, default)
row_get(d, k, c, default) == IF HasCol(d, c) THEN iterrow(d, k, c) ELSE default

violation(rule, d, k) ==
    [LOCATION_NAME |-> row_get(d, k, "LOCATION_NAME", T(Unknown)),
     SUBJ_ID |-> row_get(d, k, "SUBJ_ID", T(Unknown)),
     VISIT_NM |-> row_get(d, k, "VISIT_NM", T(Unknown)),
     rule_id |-> rule.id,
     domain |-> rule.domain,
     rule_type |-> rule.type,
     severity |-> rule.severity,
     variable |-> rule.variable,
     current_value |-> Str(row_get(d, k, rule.variable, T(Missing))),
     rule_description |-> rule.description]

\* (mutant: without the try/except the exception leaves run_qc.)
Mutant_run_rule(st, rule, d) ==
    LET r == check(rule, d) IN
    IF st.raised THEN st
    ELSE IF r.raised THEN [raised |-> TRUE, results |-> st.results]
    ELSE LET rowsOf == TrueIndices(r.mask, 1) IN
         [raised |-> FALSE,
          results |-> st.results \o
              [j \in 1..Len(rowsOf) |-> violation(rule, d, rowsOf[j])]]

\* One pass of the loop body of run_qc for one rule: the try block appends
\* the flagged rows' violations, the except clause swallows the exception.
run_rule(st, rule, d) ==
    LET r == check(rule, d) IN
    IF r.raised THEN st
    ELSE LET rowsOf == TrueIndices(r.mask, 1) IN
         [raised |-> FALSE,
          results |-> st.results \o
              [j \in 1..Len(rowsOf) |-> violation(rule, d, rowsOf[j])]]

RECURSIVE run_rules(_, _, _, _)
run_rules(registry, k, st, d) ==
    IF k > Len(registry) THEN st
    ELSE run_rules(registry, k + 1, run_rule(st, registry[k], d), d)

\* run_qc over a registry; the program's registry is rules.
run_qc_with(registry, d) ==
    run_rules(registry, 1, [raised |-> FALSE, results |-> <<>>], d)

run_qc(d) == run_qc_with(rules, d)

\* Series.value_counts().to_dict() of one field of the violations.
value_counts_field(q, field) ==
    LET keys == {q[k][field] : k \in 1..Len(q)} IN
    [key \in keys |-> Cardinality({k \in 1..Len(q) : q[k][field] = key})]

EmptyDict == [key \in {} |-> 0]

get_stats(q) ==
    IF Len(q) = 0
    THEN [total_errors |-> 0,
          error_rate |-> 0,
          severity_counts |-> EmptyDict,
          domain_counts |-> EmptyDict]
    ELSE [total_errors |-> Len(q),
          severity_counts |-> value_counts_field(q, "severity"),
          domain_counts |-> value_counts_field(q, "domain")]

(***************************************************************************)
(* String helpers.                                                         *)
(***************************************************************************)
IsSpace(ch) == ch = " "

RECURSIVE LStrip(_)
LStrip(str) ==
    IF Len(str) > 0 /\ IsSpace(Head(str)) THEN LStrip(Tail(str)) ELSE str

RECURSIVE RStrip(_)
RStrip(str) ==
    IF Len(str) > 0 /\ IsSpace(str[Len(str)])
    THEN RStrip(SubSeq(str, 1, Len(str) - 1))
    ELSE str

\* str.strip()
Strip(str) == RStrip(LStrip(str))

\* Series.astype(str).str.strip()
astype_str_strip(cells) == [k \in 1..Len(cells) |-> T(Strip(Str(cells[k])))]

(***************************************************************************)
(* DataManager.get_summary.                                                *)
(***************************************************************************)
Screening == <<"S", "c", "r", "e", "e", "n", "i", "n", "g">>
Enrolled == <<"E", "n", "r", "o", "l", "l", "e", "d">>
DropOut == <<"D", "r", "o", "p", " ", "O", "u", "t">>
StudyOffLock == <<"S", "t", "u", "d", "y", " ", "O", "f", "f", " ", "+", " ",
                  "L", "o", "c", "k">>
StudyOff == <<"S", "t", "u", "d", "y", " ", "O", "f", "f">>
Death == <<"D", "e", "a", "t", "h">>
ScreeningFailure == <<"S", "c", "r", "e", "e", "n", "i", "n", "g", " ",
                      "F", "a", "i", "l", "u", "r", "e">>
COPD == <<"C", "O", "P", "D">>
NonCOPD == <<"N", "o", "n", "-", "C", "O", "P", "D">>
COPDYoung == <<"C", "O", "P", "D", " ", "i", "n", " ", "y", "o", "u", "n", "g",
               " ", "a", "g", "e">>
PRISm == <<"P", "R", "I", "S", "m">>

status_map == <<
    <<Screening, Enrolled>>,
    <<Enrolled, Enrolled>>,
    <<DropOut, StudyOff>>,
    <<StudyOffLock, StudyOff>>,
    <<StudyOff, StudyOff>>,
    <<Death, Death>>,
    <<ScreeningFailure, ScreeningFailure>> >>

target_order == <<Enrolled, StudyOff, Death, ScreeningFailure>>

enroll_map == <<
    <<<<"1">>, COPD>>,
    <<<<"2">>, NonCOPD>>,
    <<<<"3">>, COPDYoung>>,
    <<<<"4">>, PRISm>> >>

target_enroll_order == <<COPD, NonCOPD, COPDYoung, PRISm>>

InSeq(x, seq) == \E k \in 1..Len(seq) : seq[k] = x
HasKey(map, key) == \E k \in 1..Len(map) : map[k][1] = key
Lookup(map, key) == map[CHOOSE k \in 1..Len(map) : map[k][1] = key][2]

\* Series.map(table) of one string: the mapped label, or NaN.
map_cell(table, str) == IF HasKey(table, str) THEN T(Lookup(table, str)) ELSE NA

\* a.fillna(b), cell by cell
fillna(a, b) == IF IsNa(a) THEN b ELSE a

\* Two cells are the same key for drop_duplicates, which takes missing values
\* as equal to each other.
SameKey(a, b) == (IsNa(a) /\ IsNa(b)) \/ CellEq(a, b)

\* The rows drop_duplicates(subset=[col]) keeps: the first row of each key
\* (mutant: the last row of each key is kept).
Mutant_drop_duplicates(d, col) ==
    TrueIndices([k \in Rows(d) |->
        \A j \in (k + 1)..d.n : ~SameKey(Cells(d, col)[j], Cells(d, col)[k])], 1)

drop_duplicates(d, col) ==
    TrueIndices([k \in Rows(d) |->
        \A j \in 1..(k - 1) : ~SameKey(Cells(d, col)[j], Cells(d, col)[k])], 1)

\* Series.nunique(): the distinct values, missing values left out.
nunique(cells) ==
    Cardinality({k \in 1..Len(cells) :
        /\ ~IsNa(cells[k])
        /\ \A j \in 1..(k - 1) : ~CellEq(cells[j], cells[k])})

\* Series.value_counts() read at one key: counts.get(key, 0).
counts_get(cells, key) ==
    Cardinality({k \in 1..Len(cells) : IsStr(cells[k]) /\ cells[k].s = key})

\* counts.index
counts_index(cells) == {cells[k].s : k \in {j \in 1..Len(cells) : IsStr(cells[j])}}

\* Series.value_counts().to_dict() of a column of strings.
value_counts_dict(cells) ==
    [key \in counts_index(cells) |-> counts_get(cells, key)]

\* The dict comprehension over the canonical order: one (label, count) pair
\* per label, in order (mutant: only labels that occur are kept).
Mutant_ordered_counts(order, cells) ==
    LET kept == SelectSeq(order, LAMBDA key : key \in counts_index(cells)) IN
    [j \in 1..Len(kept) |-> <<kept[j], counts_get(cells, kept[j])>>]

ordered_counts(order, cells) ==
    LET kept == SelectSeq(order,
                    LAMBDA key : InSeq(key, order) \/ key \in counts_index(cells)) IN
    [j \in 1..Len(kept) |-> <<kept[j], counts_get(cells, kept[j])>>]

\* for k in target_order: if k not in subj_status_counts: ...[k] = 0
RECURSIVE fill_missing(_, _, _)
fill_missing(dict, order, k) ==
    IF k > Len(order) THEN dict
    ELSE fill_missing(IF HasKey(dict, order[k]) THEN dict
                      ELSE Append(dict, <<order[k], 0>>), order, k + 1)

\* float(str): a plain decimal literal, surrounding blanks allowed.  Only the
\* integer part is kept, which is all that int(float(str)) reads.
IsDigit(ch) == InSeq(ch, Digits)
DigitValue(ch) == (CHOOSE k \in 1..10 : Digits[k] = ch) - 1

RECURSIVE NatOf(_)
NatOf(str) ==
    IF Len(str) = 0 THEN 0
    ELSE 10 * NatOf(SubSeq(str, 1, Len(str) - 1)) + DigitValue(str[Len(str)])

parse_float(str) ==
    LET body == Strip(str)
        signed == Len(body) > 0 /\ Head(body) \in {"+", "-"}
        num == IF signed THEN Tail(body) ELSE body
        dots == {k \in 1..Len(num) : num[k] = "."}
        whole == IF dots = {} THEN num
                 ELSE SubSeq(num, 1, (CHOOSE k \in dots : TRUE) - 1)
        frac == IF dots = {} THEN <<>>
                ELSE SubSeq(num, (CHOOSE k \in dots : TRUE) + 1, Len(num))
        ok == /\ Cardinality(dots) <= 1
              /\ \A k \in 1..Len(whole) : IsDigit(whole[k])
              /\ \A k \in 1..Len(frac) : IsDigit(frac[k])
              /\ Len(whole) + Len(frac) > 0
    IN  IF ok
        THEN [ok |-> TRUE,
              int |-> IF signed /\ Head(body) = "-" THEN -NatOf(whole)
                      ELSE NatOf(whole)]
        ELSE [ok |-> FALSE, int |-> 0]

\* int(x) of a float in tenths: truncation toward zero.
Trunc(tenths) == IF tenths < 0 THEN -((-tenths) \div 10) ELSE tenths \div 10

\* (mutant: the raw value is stringified without numeric coercion.)
Mutant_normalize_enroll(val) == Str(val)

\* str(int(float(val))), and str(val) when that raises.
normalize_enroll(val) ==
    CASE val.t = "i" -> StrInt(val.n)
      [] val.t = "f" -> StrInt(Trunc(val.n))
      [] val.t = "s" -> IF parse_float(val.s).ok
                        THEN StrInt(parse_float(val.s).int)
                        ELSE Str(val)
      [] OTHER -> Str(val)

\* df[col] = <a Series of str>
WithColumn(d, col, cells) == [d EXCEPT !.data[col] = Col("object", cells)]

\* The store after get_summary: SUBJ_STATUS and VISIT_NM are rewritten in
\* place as stripped strings.
summary_store(d) ==
    LET d1 == IF HasCol(d, "SUBJ_STATUS") /\ HasCol(d, "SUBJ_ID")
              THEN WithColumn(d, "SUBJ_STATUS",
                              astype_str_strip(Cells(d, "SUBJ_STATUS")))
              ELSE d
    IN  IF HasCol(d1, "VISIT_NM")
        THEN WithColumn(d1, "VISIT_NM", astype_str_strip(Cells(d1, "VISIT_NM")))
        ELSE d1

subj_status_counts(d) ==
    IF HasCol(d, "SUBJ_STATUS") /\ HasCol(d, "SUBJ_ID")
    THEN LET cleaned == WithColumn(d, "SUBJ_STATUS",
                                   astype_str_strip(Cells(d, "SUBJ_STATUS")))
             unique_subjs == TakeRows(cleaned, drop_duplicates(cleaned, "SUBJ_ID"))
             raw == Cells(unique_subjs, "SUBJ_STATUS")
             mapped_status == [k \in 1..Len(raw) |->
                                 fillna(map_cell(status_map, raw[k].s), raw[k])]
         IN  fill_missing(ordered_counts(target_order, mapped_status),
                          target_order, 1)
    ELSE <<>>

enroll_counts(d) ==
    IF HasCol(d, "ENROLL_COPDNOTCOPD")
    THEN LET raw == Cells(d, "ENROLL_COPDNOTCOPD")
             temp_series == [k \in 1..Len(raw) |-> normalize_enroll(raw[k])]
             mapped_enroll == [k \in 1..Len(raw) |->
                                 map_cell(enroll_map, temp_series[k])]
         IN  [j \in 1..Len(target_enroll_order) |->
                <<target_enroll_order[j],
                  counts_get(mapped_enroll, target_enroll_order[j])>>]
    ELSE <<>>

visit_counts(d) ==
    IF HasCol(d, "VISIT_NM")
    THEN value_counts_dict(astype_str_strip(Cells(d, "VISIT_NM")))
    ELSE EmptyDict

get_summary(d) ==
    IF d.none THEN [none |-> TRUE]
    ELSE [none |-> FALSE,
          record_count |-> d.n,
          columns |-> Len(columns(summary_store(d))),
          institutions |-> IF HasCol(d, "LOCATION_NAME")
                           THEN nunique(Cells(d, "LOCATION_NAME")) ELSE 0,
          subjects |-> IF HasCol(d, "SUBJ_ID")
                       THEN nunique(Cells(d, "SUBJ_ID")) ELSE 0,
          distributions |->
              [subj_status |-> subj_status_counts(d),
               enroll_copd |-> enroll_counts(d),
               visit_nm |-> visit_counts(d)]]

(***************************************************************************)
(* Filters: an ordered mapping, a sequence of <<key, value>> pairs.  A     *)
(* value is None, a scalar (a string or a number, held as a cell) or a     *)
(* list of scalars.                                                        *)
(***************************************************************************)
FNone == [kind |-> "none", v |-> NA, items |-> <<>>]
FVal(c) == [kind |-> "scalar", v |-> c, items |-> <<>>]
FList(cs) == [kind |-> "list", v |-> NA, items |-> cs]

\* Python truthiness: None, "", 0 and [] are false.
Truthy(value) ==
    CASE value.kind = "none" -> FALSE
      [] value.kind = "list" -> Len(value.items) > 0
      [] OTHER -> IF IsStr(value.v) THEN Len(value.v.s) > 0
                  ELSE Tenths(value.v) # 0

\* The filter value meaning "all".
All == <<"jeon", "che">>

ToLower(ch) ==
    CASE ch = "A" -> "a" [] ch = "B" -> "b" [] ch = "S" -> "s"
      [] ch = "V" -> "v" [] ch = "N" -> "n" [] OTHER -> ch

Lower(str) == [k \in 1..Len(str) |-> ToLower(str[k])]

\* needle occurs in hay
Contains(hay, needle) ==
    \E k \in 0..(Len(hay) - Len(needle)) :
        SubSeq(hay, k + 1, k + Len(needle)) = needle

\* Series.astype(str).str.contains(value, case=False, na=False), for a value
\* without regular expression metacharacters.
str_contains(c, value) == Contains(Lower(Str(c)), Lower(value))

\* One predicate of get_data.  A pattern that is no string makes
\* str.contains raise; a numeric column compared with a list of another
\* length raises, and is compared element by element otherwise.
data_predicate_raises(d, key, value) ==
    /\ Truthy(value)
    /\ HasCol(d, key)
    /\ IF dtype(d, key) = "object"
       THEN ~(value.kind = "scalar" /\ IsStr(value.v))
       ELSE value.kind = "list" /\ Len(value.items) # d.n

data_predicate(d, key, value) ==
    IF Truthy(value) /\ HasCol(d, key)
    THEN IF dtype(d, key) = "object"
         THEN TakeRows(d, TrueIndices([k \in Rows(d) |->
                  str_contains(Cells(d, key)[k], value.v.s)], 1))
         ELSE TakeRows(d, TrueIndices([k \in Rows(d) |->
                  CellEq(Cells(d, key)[k],
                         IF value.kind = "list" THEN value.items[k] ELSE value.v)], 1))
    ELSE d

RECURSIVE data_filter(_, _, _)
data_filter(st, filters, k) ==
    IF k > Len(filters) \/ st.raised THEN st
    ELSE IF data_predicate_raises(st.frame, filters[k][1], filters[k][2])
         THEN [raised |-> TRUE, frame |-> st.frame]
         ELSE data_filter([raised |-> FALSE,
                           frame |-> data_predicate(st.frame, filters[k][1],
                                                    filters[k][2])],
                          filters, k + 1)

\* filtered_df of get_data
filtered_df(d, filters) == data_filter([raised |-> FALSE, frame |-> d], filters, 1)

\* One row as a record of its columns, DataFrame.fillna("") applied.
row_record(d, k) ==
    [c \in {x \in ColNames : HasCol(d, x)} |->
        IF IsNa(Cells(d, c)[k]) THEN T(<<>>) ELSE Cells(d, c)[k]]

Min(a, b) == IF a < b THEN a ELSE b
Max(a, b) == IF a > b THEN a ELSE b

\* (mutant: the page number is taken as 0-indexed.)
Mutant_page_start(page, limit) == page * limit

\* start = (page - 1) * limit
page_start(page, limit) == (page - 1) * limit

\* The positions (1-based here) that iloc[start:end] selects of total rows,
\* for start >= 0.
iloc_slice(total, start, end) ==
    [j \in 1..Max(0, Min(end, total) - Min(start, total)) |-> start + j]

get_data(d, page, limit, filters) ==
    IF d.none
    THEN [raised |-> FALSE, data |-> <<>>, total |-> 0, page |-> page, limit |-> limit]
    ELSE LET f == filtered_df(d, filters)
             start == page_start(page, limit)
             end == start + limit
             idx == iloc_slice(f.frame.n, start, end)
         IN  IF f.raised
             THEN [raised |-> TRUE, data |-> <<>>, total |-> 0,
                   page |-> page, limit |-> limit]
             ELSE [raised |-> FALSE,
                   data |-> [j \in 1..Len(idx) |-> row_record(f.frame, idx[j])],
                   total |-> f.frame.n,
                   page |-> page,
                   limit |-> limit]

\* One predicate of get_variable_stats: membership for a list, == otherwise
\* (mutant: a text column is matched as get_data matches it).
Mutant_stats_predicate(d, key, value) ==
    IF Truthy(value) /\ HasCol(d, key) /\ value # FVal(T(All))
    THEN IF value.kind = "list"
         THEN TakeRows(d, TrueIndices([k \in Rows(d) |->
                  \E j \in 1..Len(value.items) :
                      CellEq(Cells(d, key)[k], value.items[j])], 1))
         ELSE IF dtype(d, key) = "object" /\ IsStr(value.v)
         THEN TakeRows(d, TrueIndices([k \in Rows(d) |->
                  str_contains(Cells(d, key)[k], value.v.s)], 1))
         ELSE TakeRows(d, TrueIndices([k \in Rows(d) |->
                  CellEq(Cells(d, key)[k], value.v)], 1))
    ELSE d

stats_predicate(d, key, value) ==
    IF Truthy(value) /\ HasCol(d, key) /\ value # FVal(T(All))
    THEN IF value.kind = "list"
         THEN TakeRows(d, TrueIndices([k \in Rows(d) |->
                  \E j \in 1..Len(value.items) :
                      CellEq(Cells(d, key)[k], value.items[j])], 1))
         ELSE TakeRows(d, TrueIndices([k \in Rows(d) |->
                  CellEq(Cells(d, key)[k], value.v)], 1))
    ELSE d

RECURSIVE stats_filter(_, _, _)
stats_filter(d, filters, k) ==
    IF k > Len(filters) THEN d
    ELSE stats_filter(stats_predicate(d, filters[k][1], filters[k][2]),
                      filters, k + 1)

\* df_filtered of get_variable_stats
df_filtered(d, filters) == stats_filter(d, filters, 1)

is_numeric_dtype(dt) == dt \in {"int64", "float64"}

count_missing(cells) == Cardinality({k \in 1..Len(cells) : IsNa(cells[k])})

\* get_variable_stats.  The descriptive statistics, the histogram and the
\* per-institution breakdown are computed from df_filtered[variable] alone;
\* the model keeps the frame they are computed from and the counts.
get_variable_stats(d, variable, filters) ==
    IF d.none \/ ~HasCol(d, variable) THEN [none |-> TRUE]
    ELSE LET selected == df_filtered(d, filters)
             series == Cells(selected, variable)
             total == Len(series)
             missing == count_missing(series)
         IN  [none |-> FALSE,
              variable |-> variable,
              is_numeric |-> is_numeric_dtype(dtype(selected, variable)),
              stats |-> [n |-> total - missing, missing |-> missing],
              df_filtered |-> selected]

\* get_column_stats: one entry per column; missing / total raises
\* ZeroDivisionError on a frame without rows.
get_column_stats(d) ==
    IF d.none THEN [raised |-> FALSE, stats |-> <<>>]
    ELSE IF d.n = 0 /\ Len(columns(d)) > 0 THEN [raised |-> TRUE, stats |-> <<>>]
    ELSE [raised |-> FALSE,
          stats |-> [j \in 1..Len(columns(d)) |->
                       [column |-> columns(d)[j],
                        dtype |-> dtype(d, columns(d)[j]),
                        missing |-> count_missing(Cells(d, columns(d)[j])),
                        unique |-> nunique(Cells(d, columns(d)[j]))]]]

\* Character order of the strings that are sorted.
Alphabet == <<" ", "+", "-", ".", "0", "1", "2", "3", "4", "5", "6", "7", "8",
              "9", "A", "B", "D", "E", "S", "V", "W", "a", "b", "d", "e", "h",
              "i", "l", "n", "o", "r", "t", "w", "x">>
Rank(ch) == CHOOSE k \in 1..Len(Alphabet) : Alphabet[k] = ch

RECURSIVE StrLess(_, _)
StrLess(a, b) ==
    IF Len(b) = 0 THEN FALSE
    ELSE IF Len(a) = 0 THEN TRUE
    ELSE IF Head(a) = Head(b) THEN StrLess(Tail(a), Tail(b))
    ELSE Rank(Head(a)) < Rank(Head(b))

\* Python < between two values of a list being sorted
CellLess(a, b) ==
    IF IsStr(a) THEN StrLess(a.s, b.s) ELSE Tenths(a) < Tenths(b)

\* Series.dropna().unique(): the first cell of each distinct value
unique_cells(cells) ==
    {cells[k] : k \in {j \in 1..Len(cells) :
        /\ ~IsNa(cells[j])
        /\ \A i \in 1..(j - 1) : ~CellEq(cells[i], cells[j])}}

\* sorted() raises TypeError when it compares a str with a number.
sorted_raises(cells) ==
    /\ \E c \in unique_cells(cells) : IsStr(c)
    /\ \E c \in unique_cells(cells) : IsNum(c)

\* sorted(Series.dropna().unique().tolist())
sorted_unique(cells) ==
    LET values == unique_cells(cells)
    IN  CHOOSE seq \in [1..Cardinality(values) -> values] :
            \A j, k \in 1..Cardinality(values) : j < k => CellLess(seq[j], seq[k])

SortedColumnOrder == <<"AGE", "ENROLL_COPDNOTCOPD", "LOCATION_NAME", "SUBJ_ID",
                       "SUBJ_STATUS", "VISIT_NM">>

\* The five static domain labels (Korean in the source).
domains == <<"subject management", "clinical information", "questionnaire",
             "test items", "medication">>

get_filter_options(d) ==
    IF d.none THEN [none |-> TRUE, raised |-> FALSE]
    ELSE IF \/ HasCol(d, "LOCATION_NAME") /\ sorted_raises(Cells(d, "LOCATION_NAME"))
            \/ HasCol(d, "VISIT_NM") /\ sorted_raises(Cells(d, "VISIT_NM"))
    THEN [none |-> FALSE, raised |-> TRUE]
    ELSE [none |-> FALSE,
          raised |-> FALSE,
          domains |-> domains,
          institutions |-> IF HasCol(d, "LOCATION_NAME")
                           THEN sorted_unique(Cells(d, "LOCATION_NAME")) ELSE <<>>,
          visits |-> IF HasCol(d, "VISIT_NM")
                     THEN sorted_unique(Cells(d, "VISIT_NM")) ELSE <<>>,
          variables |-> SelectSeq(SortedColumnOrder, LAMBDA c : HasCol(d, c))]

(***************************************************************************)
(* Input files.  ColChoices(V, n): the column is absent, or holds n cells  *)
(* drawn from V.                                                           *)
(***************************************************************************)
ColChoices(V, n) == {Absent} \cup {Col("", cells) : cells \in [1..n -> V]}

S1 == <<"S", "1">>
S2 == <<"S", "2">>
SiteA == <<"A">>
SiteAb == <<"A", "b">>
V1 == <<"V", "1">>
V1Padded == <<" ", "V", "1">>
NotANumber == <<"x">>
One == <<"1">>
OnePointZero == <<"1", ".", "0">>

\* Files whose rule target columns vary (SUBJ_ID, LOCATION_NAME, AGE,
\* ENROLL_COPDNOTCOPD), and files whose identifying columns vary.
QCRuleFiles ==
    UNION {[none : {FALSE}, n : {n},
            data : [SUBJ_ID : ColChoices({NA, T(S1)}, n),
                    LOCATION_NAME : ColChoices({NA, T(SiteA)}, n),
                    VISIT_NM : {Absent},
                    SUBJ_STATUS : {Absent},
                    ENROLL_COPDNOTCOPD : ColChoices({NA, I(1), I(4)}, n),
                    AGE : ColChoices({I(39), I(40), T(NotANumber)}, n)]]
           : n \in 0..MaxQCRows}

QCIdentFiles ==
    UNION {[none : {FALSE}, n : {n},
            data : [SUBJ_ID : ColChoices({NA, T(S1)}, n),
                    LOCATION_NAME : ColChoices({NA, T(SiteA)}, n),
                    VISIT_NM : ColChoices({NA, T(V1)}, n),
                    SUBJ_STATUS : {Absent},
                    ENROLL_COPDNOTCOPD : ColChoices({I(4), T(One)}, n),
                    AGE : ColChoices({F(395)}, n)]]
           : n \in 0..MaxQCRows}

\* Files with the ENROLL_COPDNOTCOPD column alone, and with AGE alone.
QCEnrollFiles ==
    UNION {[none : {FALSE}, n : {n},
            data : [SUBJ_ID : {Absent},
                    LOCATION_NAME : {Absent},
                    VISIT_NM : {Absent},
                    SUBJ_STATUS : {Absent},
                    ENROLL_COPDNOTCOPD :
                        ColChoices({NA, I(1), I(2), I(3), I(4), F(25), T(One)}, n),
                    AGE : {Absent}]]
           : n \in 0..MaxQCRows}

QCAgeFiles ==
    UNION {[none : {FALSE}, n : {n},
            data : [SUBJ_ID : {Absent},
                    LOCATION_NAME : {Absent},
                    VISIT_NM : {Absent},
                    SUBJ_STATUS : {Absent},
                    ENROLL_COPDNOTCOPD : {Absent},
                    AGE : ColChoices({NA, I(39), I(40), I(100), I(101),
                                      T(NotANumber)}, n)]]
           : n \in 0..MaxQCRows}

QCFiles == QCRuleFiles \cup QCIdentFiles \cup QCEnrollFiles \cup QCAgeFiles

\* Files for the summary: subject ids with statuses, enrollment codes of one
\* or no subject, and visits with institutions.
DeathPadded == <<" ", "D", "e", "a", "t", "h", " ">>
Withdrawn == <<"W", "i", "t", "h", "d", "r", "a", "w", "n">>
Two == <<"2">>

StatusFiles ==
    UNION {[none : {FALSE}, n : {n},
            data : [SUBJ_ID : ColChoices({NA, T(S1), T(S2)}, n),
                    LOCATION_NAME : {Absent},
                    VISIT_NM : {Absent},
                    SUBJ_STATUS : ColChoices({NA, T(Screening), T(Enrolled),
                                              T(DeathPadded), T(Withdrawn)}, n),
                    ENROLL_COPDNOTCOPD : {Absent},
                    AGE : {Absent}]]
           : n \in 0..MaxSummaryRows}

EnrollFiles ==
    UNION {[none : {FALSE}, n : {n},
            data : [SUBJ_ID : ColChoices({T(S1)}, n),
                    LOCATION_NAME : {Absent},
                    VISIT_NM : {Absent},
                    SUBJ_STATUS : {Absent},
                    ENROLL_COPDNOTCOPD :
                        ColChoices({NA, I(1), F(10), T(One), T(OnePointZero),
                                    T(NotANumber), T(Two), I(4), F(25)}, n),
                    AGE : {Absent}]]
           : n \in 0..MaxSummaryRows}

VisitFiles ==
    UNION {[none : {FALSE}, n : {n},
            data : [SUBJ_ID : {Absent},
                    LOCATION_NAME : ColChoices({NA, T(SiteA), T(SiteAb)}, n),
                    VISIT_NM : ColChoices({NA, T(V1), T(V1Padded)}, n),
                    SUBJ_STATUS : {Absent},
                    ENROLL_COPDNOTCOPD : {Absent},
                    AGE : {Absent}]]
           : n \in 0..MaxSummaryRows}

SummaryFiles == StatusFiles \cup EnrollFiles \cup VisitFiles

\* Requests: the call and its arguments.
NoArgs == [call |-> "", page |-> 0, limit |-> 0, filters |-> <<>>, variable |-> ""]
DataArgs(page, limit, filters) ==
    [call |-> "get_data", page |-> page, limit |-> limit, filters |-> filters,
     variable |-> ""]
StatsArgs(variable, filters) ==
    [call |-> "get_variable_stats", page |-> 0, limit |-> 0, filters |-> filters,
     variable |-> variable]

\* Files and requests for paging: the /data route filters on SUBJ_ID alone.
PagingFiles ==
    UNION {[none : {FALSE}, n : {n},
            data : [SUBJ_ID : ColChoices({NA, T(S1), T(S2)}, n),
                    LOCATION_NAME : {Absent},
                    VISIT_NM : {Absent},
                    SUBJ_STATUS : {Absent},
                    ENROLL_COPDNOTCOPD : {Absent},
                    AGE : ColChoices({I(39)}, n)]]
           : n \in 0..MaxDataRows}

LowerS == <<"s">>

PagingArgs ==
    {DataArgs(page, limit, filters) :
        page \in 1..MaxPage, limit \in 1..MaxLimit,
        filters \in {<<>>, <<<<"SUBJ_ID", FVal(T(LowerS))>>>>,
                     <<<<"SUBJ_ID", FVal(T(One))>>>>}}

\* Files and requests for filtering: a text column and a numeric column.
FilterFiles ==
    UNION {[none : {FALSE}, n : {n},
            data : [SUBJ_ID : {Absent},
                    LOCATION_NAME : ColChoices({NA, T(SiteA), T(SiteAb)}, n),
                    VISIT_NM : {Absent},
                    SUBJ_STATUS : {Absent},
                    ENROLL_COPDNOTCOPD : {Absent},
                    AGE : ColChoices({I(39), I(40)}, n)]]
           : n \in 0..MaxFilterRows}

LowerA == <<"a">>
Forty == <<"4", "0">>

TextFilterValues ==
    {FNone, FVal(T(<<>>)), FVal(T(LowerA)), FVal(T(SiteA)), FVal(T(All)),
     FList(<<T(SiteA)>>)}

DataFilters ==
    {<<>>, <<<<"NOPE", FVal(T(SiteA))>>>>,
     <<<<"AGE", FVal(I(40))>>>>, <<<<"AGE", FVal(T(Forty))>>>>,
     <<<<"LOCATION_NAME", FVal(T(LowerA))>>, <<"AGE", FVal(I(40))>>>>,
     <<<<"AGE", FVal(I(39))>>, <<"LOCATION_NAME", FVal(T(SiteA))>>>>}
        \cup {<<<<"LOCATION_NAME", v>>>> : v \in TextFilterValues}

DataVariables == {"AGE", "LOCATION_NAME", "SUBJ_ID"}

FilterArgs ==
    {DataArgs(1, MaxFilterRows, filters) : filters \in DataFilters}
        \cup {StatsArgs(variable, filters) :
                variable \in DataVariables, filters \in DataFilters}

\* Files for the store: columns that get_summary rewrites next to columns it
\* leaves alone.
StoreFiles ==
    UNION {[none : {FALSE}, n : {n},
            data : [SUBJ_ID : ColChoices({T(S1)}, n),
                    LOCATION_NAME : ColChoices({T(SiteA)}, n),
                    VISIT_NM : ColChoices({NA, T(V1Padded)}, n),
                    SUBJ_STATUS : ColChoices({NA, T(DeathPadded)}, n),
                    ENROLL_COPDNOTCOPD : {Absent},
                    AGE : ColChoices({I(39)}, n)]]
           : n \in 0..MaxStoreRows}

StoreArgs ==
    {DataArgs(1, MaxStoreRows, filters) :
        filters \in {<<>>, <<<<"VISIT_NM", FVal(T(V1))>>>>}}
        \cup {StatsArgs(variable, <<<<"VISIT_NM", FVal(T(V1))>>>>) :
                variable \in {"VISIT_NM", "AGE"}}

(***************************************************************************)
(* State: file is the uploaded file, df the store's dataset and loaded the  *)
(* dataset as it was when convert_to_parquet stored it; args is the        *)
(* request the store is asked to serve, op the last operation and res what *)
(* it returned; qc is the last run_qc output.  pc is the position of the  *)
(* request thread and of the upload handler, local the locals of the call *)
(* in flight and seen the datasets the store held during that call.       *)
(***************************************************************************)
NoResult == [none |-> TRUE]
NoQC == [has |-> FALSE, rows |-> <<>>]

\* The sequential specifications serve one call at a time: no request is in
\* flight (pc), no call has locals (local) and no store history is kept (seen).
NoThreads == [reader |-> "idle", upload |-> "idle"]
NoLocal == [institutions |-> <<>>, visits |-> <<>>]

RunQC ==
    /\ ~df.none
    /\ op' = "run_qc"
    /\ res' = run_qc(df)
    /\ qc' = [has |-> TRUE, rows |-> run_qc(df).results]
    /\ UNCHANGED <<pc, local, seen, file, df, loaded, args>>

GetStats ==
    /\ qc.has
    /\ op' = "get_stats"
    /\ res' = get_stats(qc.rows)
    /\ UNCHANGED <<pc, local, seen, file, df, loaded, args, qc>>

GetSummary ==
    /\ op' = "get_summary"
    /\ res' = get_summary(df)
    /\ df' = IF df.none THEN df ELSE summary_store(df)
    /\ UNCHANGED <<pc, local, seen, file, loaded, args, qc>>

ConvertToParquet ==
    /\ df' = convert_to_parquet(file)
    /\ loaded' = convert_to_parquet(file)
    /\ op' = "convert_to_parquet"
    /\ res' = NoResult
    /\ UNCHANGED <<pc, local, seen, file, args, qc>>

GetData ==
    /\ args.call = "get_data"
    /\ op' = "get_data"
    /\ res' = get_data(df, args.page, args.limit, args.filters)
    /\ UNCHANGED <<pc, local, seen, file, df, loaded, args, qc>>

GetVariableStats ==
    /\ args.call = "get_variable_stats"
    /\ op' = "get_variable_stats"
    /\ res' = get_variable_stats(df, args.variable, args.filters)
    /\ UNCHANGED <<pc, local, seen, file, df, loaded, args, qc>>

GetColumnStats ==
    /\ op' = "get_column_stats"
    /\ res' = get_column_stats(df)
    /\ UNCHANGED <<pc, local, seen, file, df, loaded, args, qc>>

GetFilterOptions ==
    /\ op' = "get_filter_options"
    /\ res' = get_filter_options(df)
    /\ UNCHANGED <<pc, local, seen, file, df, loaded, args, qc>>

InitQC ==
    /\ file \in QCFiles
    /\ df = convert_to_parquet(file)
    /\ loaded = df
    /\ op = "load"
    /\ args = NoArgs
    /\ res = NoResult
    /\ qc = NoQC
    /\ pc = NoThreads
    /\ local = NoLocal
    /\ seen = {}

NextQC == RunQC \/ GetStats

SpecQC == InitQC /\ [][NextQC]_vars

InitSummary ==
    /\ file \in SummaryFiles
    /\ df = convert_to_parquet(file)
    /\ loaded = df
    /\ op = "load"
    /\ args = NoArgs
    /\ res = NoResult
    /\ qc = NoQC
    /\ pc = NoThreads
    /\ local = NoLocal
    /\ seen = {}

NextSummary == GetSummary

SpecSummary == InitSummary /\ [][NextSummary]_vars

InitData ==
    /\ \/ file \in PagingFiles /\ args \in PagingArgs
       \/ file \in FilterFiles /\ args \in FilterArgs
    /\ df = convert_to_parquet(file)
    /\ loaded = df
    /\ op = "load"
    /\ res = NoResult
    /\ qc = NoQC
    /\ pc = NoThreads
    /\ local = NoLocal
    /\ seen = {}

NextData == GetData \/ GetVariableStats

SpecData == InitData /\ [][NextData]_vars

\* The store from its construction on: nothing is loaded until the uploaded
\* file is converted.
Init ==
    /\ file \in StoreFiles
    /\ args \in StoreArgs
    /\ df = NoFrame
    /\ loaded = NoFrame
    /\ op = "init"
    /\ res = NoResult
    /\ qc = NoQC
    /\ pc = NoThreads
    /\ local = NoLocal
    /\ seen = {}

Next ==
    \/ ConvertToParquet
    \/ RunQC
    \/ GetStats
    \/ GetSummary
    \/ GetData
    \/ GetColumnStats
    \/ GetVariableStats
    \/ GetFilterOptions

Spec == Init /\ [][Next]_vars

(***************************************************************************)
(* Claims about run_qc and get_stats, checked under SpecQC.                *)
(***************************************************************************)
RuleIndex == 1..Len(rules)
ViolationsOf(results, rule) == SelectSeq(results, LAMBDA v : v.rule_id = rule.id)

\* The rule's target column is absent, or its predicate raises.
RuleFails(rule, d) == ~HasCol(d, rule.variable) \/ check(rule, d).raised

\* C1: run_qc returns normally; a rule whose target column is absent or whose
\* predicate raises emits no violation, and every other rule emits exactly
\* the violations it emits when it is the only rule of the registry.
C1_RuleIsolation ==
    op = "run_qc" =>
        /\ ~res.raised
        /\ \A r \in RuleIndex :
              ViolationsOf(res.results, rules[r]) =
                  IF RuleFails(rules[r], df) THEN <<>>
                  ELSE run_qc_with(<<rules[r]>>, df).results

\* A run in which a rule's predicate raised on a column that exists (a type
\* mismatch), another rule's target column is absent, and a rule later in the
\* registry than the raising one still emitted violations.
C1_Witness ==
    /\ op = "run_qc"
    /\ \E r1, r2, r3 \in RuleIndex :
          /\ r1 < r2
          /\ HasCol(df, rules[r1].variable)
          /\ check(rules[r1], df).raised
          /\ ViolationsOf(res.results, rules[r2]) # <<>>
          /\ ~HasCol(df, rules[r3].variable)

\* The violation record as the specification describes it: "Unknown" for a
\* missing identifying value, "Missing" for a missing target value.
ClaimedField(d, k, c, default) ==
    IF ~HasCol(d, c) THEN default
    ELSE IF IsNa(Cells(d, c)[k]) THEN default
    ELSE iterrow(d, k, c)

ClaimedViolation(rule, d, k) ==
    [violation(rule, d, k) EXCEPT
        !.LOCATION_NAME = ClaimedField(d, k, "LOCATION_NAME", T(Unknown)),
        !.SUBJ_ID = ClaimedField(d, k, "SUBJ_ID", T(Unknown)),
        !.VISIT_NM = ClaimedField(d, k, "VISIT_NM", T(Unknown)),
        !.current_value = Str(ClaimedField(d, k, rule.variable, T(Missing)))]

FlaggedRows(rule, d) ==
    IF check(rule, d).raised THEN <<>> ELSE TrueIndices(check(rule, d).mask, 1)

\* C2: in every emitted violation LOCATION_NAME, SUBJ_ID and VISIT_NM are
\* "Unknown" when that value is missing for the flagged row (column absent or
\* cell missing) and current_value is "Missing" when the target value is
\* absent; otherwise the fields carry the row's own values.
C2_MissingSubstituted ==
    op = "run_qc" =>
        \A r \in RuleIndex :
            ViolationsOf(res.results, rules[r]) =
                [j \in 1..Len(FlaggedRows(rules[r], df)) |->
                    ClaimedViolation(rules[r], df, FlaggedRows(rules[r], df)[j])]

\* The enrollment value is one of 1, 2, 3.
OneOf123(c) == c \in {I(1), I(2), I(3), F(10), F(20), F(30)}

EnrollRule == rules[4]

ClaimedEnrollRows(d) ==
    IF ~HasCol(d, "ENROLL_COPDNOTCOPD") THEN <<>>
    ELSE TrueIndices([k \in Rows(d) |->
            LET c == Cells(d, "ENROLL_COPDNOTCOPD")[k] IN
            ~IsNa(c) /\ ~OneOf123(c)], 1)

\* C5: ENROLL-VAL-001 flags a row exactly when the ENROLL_COPDNOTCOPD column
\* exists, the row's value is present and the value is not one of 1, 2, 3.
C5_EnrollRule ==
    op = "run_qc" =>
        ViolationsOf(res.results, EnrollRule) =
            [j \in 1..Len(ClaimedEnrollRows(df)) |->
                violation(EnrollRule, df, ClaimedEnrollRows(df)[j])]

\* A run over a column holding a 4 next to a missing cell, where the 4 alone
\* is reported.
C5_Witness ==
    /\ op = "run_qc"
    /\ HasCol(df, "ENROLL_COPDNOTCOPD")
    /\ \E k \in Rows(df) : Tenths(Cells(df, "ENROLL_COPDNOTCOPD")[k]) = 40
    /\ \E k \in Rows(df) : IsNa(Cells(df, "ENROLL_COPDNOTCOPD")[k])
    /\ Len(ViolationsOf(res.results, EnrollRule)) = 1
    /\ ViolationsOf(res.results, EnrollRule)[1].current_value = <<"4", ".", "0">>

ReportFields == {"total_errors", "error_rate", "severity_counts", "domain_counts"}

\* C8: get_stats returns a report with all four fields, error_rate 0 and
\* total_errors the number of violations; for no violations both mappings
\* are empty.
C8_ReportComplete ==
    op = "get_stats" =>
        /\ DOMAIN res = ReportFields
        /\ res.error_rate = 0
        /\ res.total_errors = Len(qc.rows)
        /\ Len(qc.rows) = 0 =>
              (res.severity_counts = EmptyDict /\ res.domain_counts = EmptyDict)

(***************************************************************************)
(* Claims about get_summary, checked under SpecSummary.  loaded is the     *)
(* dataset the summary was computed from.                                  *)
(***************************************************************************)
RECURSIVE SumCounts(_)
SumCounts(dict) == IF Len(dict) = 0 THEN 0 ELSE Head(dict)[2] + SumCounts(Tail(dict))

Keys(dict) == [j \in 1..Len(dict) |-> dict[j][1]]

HasStatusColumns(d) == HasCol(d, "SUBJ_STATUS") /\ HasCol(d, "SUBJ_ID")

SubjectOf(d, k) == Cells(d, "SUBJ_ID")[k]

\* Every subject of the dataset has exactly one row.
OneRowPerSubject(d) ==
    \A j, k \in Rows(d) : j # k => ~SameKey(SubjectOf(d, j), SubjectOf(d, k))

FirstRows(d) ==
    {k \in Rows(d) : \A j \in 1..(k - 1) : ~SameKey(SubjectOf(d, j), SubjectOf(d, k))}

StatusTable ==
    {Screening, Enrolled, DropOut, StudyOffLock, StudyOff, Death, ScreeningFailure}

InTable(c) == IsStr(c) /\ Strip(c.s) \in StatusTable

MissingSubject(d) == \E k \in Rows(d) : IsNa(SubjectOf(d, k))

CanonicalStatus == <<Enrolled, StudyOff, Death, ScreeningFailure>>
CanonicalEnroll == <<COPD, NonCOPD, COPDYoung, PRISm>>

\* C4: when the source columns are present each mapper output has exactly the
\* canonical labels as keys, in the canonical order, each count >= 0.
C4_CanonicalKeys ==
    op = "get_summary" =>
        /\ HasStatusColumns(loaded) =>
              /\ Keys(res.distributions.subj_status) = CanonicalStatus
              /\ \A j \in 1..Len(res.distributions.subj_status) :
                    res.distributions.subj_status[j][2] >= 0
        /\ HasCol(loaded, "ENROLL_COPDNOTCOPD") =>
              /\ Keys(res.distributions.enroll_copd) = CanonicalEnroll
              /\ \A j \in 1..Len(res.distributions.enroll_copd) :
                    res.distributions.enroll_copd[j][2] >= 0

\* A summary of statuses where a raw status outside the table occurs and a
\* canonical label has no row.
C4_Witness ==
    /\ op = "get_summary"
    /\ HasStatusColumns(loaded)
    /\ \E k \in Rows(loaded) : Cells(loaded, "SUBJ_STATUS")[k] = T(Withdrawn)
    /\ \E k \in Rows(loaded) : Cells(loaded, "SUBJ_STATUS")[k] = T(DeathPadded)
    /\ res.distributions.subj_status =
          <<<<Enrolled, 0>>, <<StudyOff, 0>>, <<Death, 1>>, <<ScreeningFailure, 0>>>>

\* The raw forms of enrollment code v that the claim lists: v, v.0, "v", "v.0".
RawForms(v) ==
    {I(v), F(10 * v), T(<<Digits[v + 1]>>), T(<<Digits[v + 1], ".", "0">>)}

\* A raw value that fails numeric coercion: a missing cell, a non-numeric text.
FailsCoercion(c) == IsNa(c) \/ c = T(NotANumber)

CountRows(d, col, P(_)) == Cardinality({k \in Rows(d) : P(Cells(d, col)[k])})

\* C6: every row is counted, without deduplication by subject: each row whose
\* raw value is v, v.0, "v" or "v.0" counts under the label of code v, and a
\* row whose value fails numeric coercion counts under no label.
C6_EnrollNormalized ==
    (op = "get_summary" /\ HasCol(loaded, "ENROLL_COPDNOTCOPD")) =>
        /\ ~res.none
        /\ Len(res.distributions.enroll_copd) = Len(CanonicalEnroll)
        /\ \A v \in 1..Len(CanonicalEnroll) :
              /\ res.distributions.enroll_copd[v][1] = CanonicalEnroll[v]
              /\ res.distributions.enroll_copd[v][2] >=
                    CountRows(loaded, "ENROLL_COPDNOTCOPD",
                              LAMBDA c : c \in RawForms(v))
        /\ SumCounts(res.distributions.enroll_copd)
              + CountRows(loaded, "ENROLL_COPDNOTCOPD", FailsCoercion) <= loaded.n

\* A summary of one subject's rows holding two different raw forms of code 1
\* and a value that fails coercion: COPD counts both rows.
C6_Witness ==
    /\ op = "get_summary"
    /\ HasCol(loaded, "ENROLL_COPDNOTCOPD")
    /\ HasCol(loaded, "SUBJ_ID")
    /\ \E k \in Rows(loaded) : Cells(loaded, "ENROLL_COPDNOTCOPD")[k] = T(OnePointZero)
    /\ \E k \in Rows(loaded) : Cells(loaded, "ENROLL_COPDNOTCOPD")[k] = I(1)
    /\ \E k \in Rows(loaded) : Cells(loaded, "ENROLL_COPDNOTCOPD")[k] = T(NotANumber)
    /\ res.distributions.enroll_copd =
          <<<<COPD, 2>>, <<NonCOPD, 0>>, <<COPDYoung, 0>>, <<PRISm, 0>>>>

(***************************************************************************)
(* Claims about get_data and get_variable_stats, checked under SpecData.   *)
(***************************************************************************)
\* The filtered row set get_data pages over.
FilteredRows == filtered_df(df, args.filters).frame

\* C7: for a filtered row set of size T, a 1-indexed page >= 1 and a limit
\* >= 1, get_data returns total = T, echoes page and limit, and returns the
\* filtered rows at 0-based positions [(page-1)*limit, min(page*limit, T)) in
\* source order, none when (page-1)*limit >= T.
C7_Pagination ==
    (op = "get_data" /\ ~res.raised) =>
        LET total == FilteredRows.n
            first == (args.page - 1) * args.limit
            last == Min(args.page * args.limit, total)
        IN  /\ res.total = total
            /\ res.page = args.page
            /\ res.limit = args.limit
            /\ Len(res.data) = Max(0, last - first)
            /\ \A j \in 1..Len(res.data) :
                  res.data[j] = row_record(FilteredRows, first + j)
            /\ first >= total => res.data = <<>>

\* The last, partial page of a filtered set smaller than the dataset: three
\* rows, one filtered out, limit 2, page 1 holds both remaining rows in source
\* order and the second is the dataset's third row.
C7_Witness ==
    /\ op = "get_data"
    /\ df.n = 3
    /\ res.total = 2
    /\ args.page = 1
    /\ args.limit = 2
    /\ Len(res.data) = 2
    /\ res.data[1].SUBJ_ID = T(S1)
    /\ res.data[2].SUBJ_ID = T(S2)
    /\ Cells(df, "SUBJ_ID")[2] = NA

\* A page past the end of the rows, and a partial last page.
C7_WitnessLastPage ==
    /\ op = "get_data"
    /\ res.total = 3
    /\ args.page = 2
    /\ args.limit = 2
    /\ Len(res.data) = 1

\* The Tabular Store filter of the specification: a text column matches by
\* case-insensitive substring, a numeric column by equality (a value set by
\* membership); an empty or absent value and the value "all" match every
\* row; a predicate on a column that does not exist is ignored.
ClaimedMatch(d, k, key, value) ==
    \/ ~Truthy(value)
    \/ value = FVal(T(All))
    \/ ~HasCol(d, key)
    \/ /\ HasCol(d, key)
       /\ Truthy(value)
       /\ IF value.kind = "list"
          THEN \E j \in 1..Len(value.items) : CellEq(Cells(d, key)[k], value.items[j])
          ELSE IF dtype(d, key) = "object" /\ IsStr(value.v)
          THEN str_contains(Cells(d, key)[k], value.v.s)
          ELSE CellEq(Cells(d, key)[k], value.v)

\* Exact matching: equality with the value, membership in a value set.
ExactMatch(d, k, key, value) ==
    \/ ~Truthy(value)
    \/ value = FVal(T(All))
    \/ ~HasCol(d, key)
    \/ /\ HasCol(d, key)
       /\ Truthy(value)
       /\ IF value.kind = "list"
          THEN \E j \in 1..Len(value.items) : CellEq(Cells(d, key)[k], value.items[j])
          ELSE CellEq(Cells(d, key)[k], value.v)

RowsMatchingAll(d, filters, Match(_, _, _, _)) ==
    TakeRows(d, TrueIndices([k \in Rows(d) |->
        \A j \in 1..Len(filters) : Match(d, k, filters[j][1], filters[j][2])], 1))

\* C10 as claimed: get_variable_stats computes its statistics over the rows
\* the Tabular Store filter selects.
C10_SameFilterAsStore ==
    (op = "get_variable_stats" /\ ~res.none) =>
        res.df_filtered = RowsMatchingAll(df, args.filters, ClaimedMatch)

\* C10 (amended): get_variable_stats computes its statistics over the rows
\* matching all predicates by exact, case-sensitive equality (membership for
\* a list), for text and numeric columns alike; an empty or absent value and
\* "all" match every row and a predicate on a nonexistent column is ignored.
C10_ExactFilter ==
    (op = "get_variable_stats" /\ ~res.none) =>
        /\ res.df_filtered = RowsMatchingAll(df, args.filters, ExactMatch)
        /\ res.stats.n + res.stats.missing = res.df_filtered.n

\* Statistics under the filter LOCATION_NAME = "a" over rows "A" and "Ab"
\* and a numeric filter: substring matching selects a row, the statistics
\* are computed over none.
C10_Witness ==
    /\ op = "get_variable_stats"
    /\ ~res.none
    /\ args.filters = <<<<"LOCATION_NAME", FVal(T(LowerA))>>, <<"AGE", FVal(I(40))>>>>
    /\ RowsMatchingAll(df, args.filters, ClaimedMatch).n = 1
    /\ res.df_filtered.n = 0
    /\ res.stats.n = 0

(***************************************************************************)
(* Claims about the store across operations, checked under Spec.           *)
(***************************************************************************)
ReadOps == {"run_qc", "get_data", "get_column_stats", "get_variable_stats",
            "get_filter_options", "get_summary"}

\* What a read returns on dataset d.
ReadResult(name, d) ==
    CASE name = "run_qc" -> run_qc(d)
      [] name = "get_data" -> get_data(d, args.page, args.limit, args.filters)
      [] name = "get_column_stats" -> get_column_stats(d)
      [] name = "get_variable_stats" ->
            get_variable_stats(d, args.variable, args.filters)
      [] name = "get_filter_options" -> get_filter_options(d)
      [] name = "get_summary" -> get_summary(d)

\* C9: the result of every read is a function of the loaded dataset alone: it
\* is what the read returns on the dataset as it was loaded, whatever reads
\* ran before it.
C9_ReadsArePure ==
    op \in ReadOps => res = ReadResult(op, loaded)

(***************************************************************************)
(* Requests that overlap an upload.  upload_file is a coroutine and runs   *)
(* on the event loop; the /data, /data/filters and /data/variable routes   *)
(* are plain functions and run on worker threads.  All of them use the one *)
(* module-level DataManager, which has no lock, so a request interleaves   *)
(* with the upload at every access to self.df.  Each action below is one   *)
(* such access together with the thread-local computation that follows it. *)
(***************************************************************************)
MaxSnapshotRows == 1

\* Stored datasets and uploaded files whose columns differ.
SnapshotFiles ==
    UNION {[none : {FALSE}, n : {n},
            data : [SUBJ_ID : {Col("", [k \in 1..n |-> T(S1)])},
                    LOCATION_NAME : ColChoices({T(SiteA)}, n),
                    VISIT_NM : ColChoices({T(V1Padded)}, n),
                    SUBJ_STATUS : ColChoices({T(DeathPadded)}, n),
                    ENROLL_COPDNOTCOPD : {Absent},
                    AGE : ColChoices({I(39)}, n)]]
           : n \in 1..MaxSnapshotRows}

FilterOptionsArgs ==
    [call |-> "get_filter_options", page |-> 0, limit |-> 0, filters |-> <<>>,
     variable |-> ""]

SnapshotArgs ==
    {StatsArgs(variable, filters) :
        variable \in {"AGE", "VISIT_NM"},
        filters \in {<<>>, <<<<"VISIT_NM", FVal(T(V1))>>>>}}
      \cup {DataArgs(1, MaxSnapshotRows, filters) :
              filters \in {<<>>, <<<<"VISIT_NM", FVal(T(V1))>>>>}}
      \cup {FilterOptionsArgs}

\* A store write is seen by the call in flight.
Observe(d) == IF pc.reader = "done" THEN seen ELSE seen \cup {d}

\* The exception a route turns into HTTP 500.
Failed == [none |-> FALSE, raised |-> TRUE]

\* ---- upload_file, on the event loop ----

\* convert_to_parquet: self.df = df
UploadConvert ==
    /\ pc.upload = "convert"
    /\ df' = convert_to_parquet(file)
    /\ seen' = Observe(df')
    /\ pc' = [pc EXCEPT !.upload = "run_qc"]
    /\ UNCHANGED <<file, loaded, op, args, res, qc, local>>

\* qc_engine.run_qc(data_manager.df)
UploadRunQC ==
    /\ pc.upload = "run_qc"
    /\ qc' = IF df.none THEN qc ELSE [has |-> TRUE, rows |-> run_qc(df).results]
    /\ pc' = [pc EXCEPT !.upload = "summary_status"]
    /\ UNCHANGED <<file, df, loaded, op, args, res, local, seen>>

\* get_summary: self.df['SUBJ_STATUS'] = ...astype(str).str.strip()
rewrite_subj_status(d) ==
    IF HasCol(d, "SUBJ_STATUS") /\ HasCol(d, "SUBJ_ID")
    THEN WithColumn(d, "SUBJ_STATUS", astype_str_strip(Cells(d, "SUBJ_STATUS")))
    ELSE d

\* get_summary: self.df['VISIT_NM'] = ...astype(str).str.strip()
rewrite_visit_nm(d) ==
    IF HasCol(d, "VISIT_NM")
    THEN WithColumn(d, "VISIT_NM", astype_str_strip(Cells(d, "VISIT_NM")))
    ELSE d

UploadSummaryStatus ==
    /\ pc.upload = "summary_status"
    /\ df' = rewrite_subj_status(df)
    /\ seen' = Observe(df')
    /\ pc' = [pc EXCEPT !.upload = "summary_visit"]
    /\ UNCHANGED <<file, loaded, op, args, res, qc, local>>

UploadSummaryVisit ==
    /\ pc.upload = "summary_visit"
    /\ df' = rewrite_visit_nm(df)
    /\ seen' = Observe(df')
    /\ pc' = [pc EXCEPT !.upload = "done"]
    /\ UNCHANGED <<file, loaded, op, args, res, qc, local>>

\* ---- the request, on a worker thread ----
Goto(label) == pc' = [pc EXCEPT !.reader = label]
Return(r) == res' = r /\ Goto("done")

\* get_variable_stats: if self.df is None
VarStatsCheckNone ==
    /\ args.call = "get_variable_stats" /\ pc.reader = "start"
    /\ IF df.none THEN Return([none |-> TRUE])
       ELSE Goto("check_column") /\ UNCHANGED res
    /\ UNCHANGED <<file, df, loaded, op, args, qc, local, seen>>

\* get_variable_stats: or variable not in self.df.columns
VarStatsCheckColumn ==
    /\ args.call = "get_variable_stats" /\ pc.reader = "check_column"
    /\ IF ~HasCol(df, args.variable) THEN Return([none |-> TRUE])
       ELSE Goto("copy") /\ UNCHANGED res
    /\ UNCHANGED <<file, df, loaded, op, args, qc, local, seen>>

\* The rest of get_variable_stats on the copy it takes: df_filtered[variable]
\* raises KeyError when the copy has no such column.
variable_stats_of_copy(d, variable, filters) ==
    IF ~HasCol(df_filtered(d, filters), variable) THEN Failed
    ELSE get_variable_stats(d, variable, filters)

\* get_variable_stats: df_filtered = self.df.copy() and all that follows
VarStatsCopy ==
    /\ args.call = "get_variable_stats" /\ pc.reader = "copy"
    /\ Return(variable_stats_of_copy(df, args.variable, args.filters))
    /\ UNCHANGED <<file, df, loaded, op, args, qc, local, seen>>

\* get_data: if self.df is None
DataCheckNone ==
    /\ args.call = "get_data" /\ pc.reader = "start"
    /\ IF df.none THEN Return(get_data(df, args.page, args.limit, args.filters))
       ELSE Goto("copy") /\ UNCHANGED res
    /\ UNCHANGED <<file, df, loaded, op, args, qc, local, seen>>

\* get_data: filtered_df = self.df.copy() and all that follows
DataCopy ==
    /\ args.call = "get_data" /\ pc.reader = "copy"
    /\ Return(get_data(df, args.page, args.limit, args.filters))
    /\ UNCHANGED <<file, df, loaded, op, args, qc, local, seen>>

\* get_filter_options: if self.df is None
FilterCheckNone ==
    /\ args.call = "get_filter_options" /\ pc.reader = "start"
    /\ IF df.none THEN Return(get_filter_options(df))
       ELSE Goto("check_location") /\ UNCHANGED res
    /\ UNCHANGED <<file, df, loaded, op, args, qc, local, seen>>

\* One entry of the returned dict, "<value> if '<col>' in self.df.columns
\* else []": the condition reads self.df ...
FilterCheck(at, col, read, skip) ==
    /\ args.call = "get_filter_options" /\ pc.reader = at
    /\ Goto(IF HasCol(df, col) THEN read ELSE skip)
    /\ UNCHANGED <<file, df, loaded, op, args, res, qc, local, seen>>

\* ... and the value reads self.df again: self.df[col] raises KeyError when
\* the column is gone, sorted raises TypeError on mixed values.
FilterRead(at, col, field, next) ==
    /\ args.call = "get_filter_options" /\ pc.reader = at
    /\ IF ~HasCol(df, col) \/ sorted_raises(Cells(df, col))
       THEN Return(Failed) /\ UNCHANGED local
       ELSE /\ local' = [local EXCEPT ![field] = sorted_unique(Cells(df, col))]
            /\ Goto(next)
            /\ UNCHANGED res
    /\ UNCHANGED <<file, df, loaded, op, args, qc, seen>>

FilterCheckLocation ==
    FilterCheck("check_location", "LOCATION_NAME", "read_location", "check_visit")
FilterReadLocation ==
    FilterRead("read_location", "LOCATION_NAME", "institutions", "check_visit")
FilterCheckVisit ==
    FilterCheck("check_visit", "VISIT_NM", "read_visit", "read_columns")
FilterReadVisit ==
    FilterRead("read_visit", "VISIT_NM", "visits", "read_columns")

\* get_filter_options: sorted(self.df.columns.tolist()), then return
FilterReadColumns ==
    /\ args.call = "get_filter_options" /\ pc.reader = "read_columns"
    /\ Return([none |-> FALSE,
               raised |-> FALSE,
               domains |-> domains,
               institutions |-> local.institutions,
               visits |-> local.visits,
               variables |-> SelectSeq(SortedColumnOrder, LAMBDA c : HasCol(df, c))])
    /\ UNCHANGED <<file, df, loaded, op, args, qc, local, seen>>

\* One request is in flight and one upload has been received; the store
\* holds nothing yet or an earlier upload.
InitOverlap ==
    /\ file \in SnapshotFiles
    /\ df \in {NoFrame} \cup {convert_to_parquet(f) : f \in SnapshotFiles}
    /\ loaded = df
    /\ args \in SnapshotArgs
    /\ op = "serve"
    /\ res = NoResult
    /\ qc = NoQC
    /\ pc = [reader |-> "start", upload |-> "convert"]
    /\ local = NoLocal
    /\ seen = {df}

NextOverlap ==
    \/ UploadConvert
    \/ UploadRunQC
    \/ UploadSummaryStatus
    \/ UploadSummaryVisit
    \/ VarStatsCheckNone
    \/ VarStatsCheckColumn
    \/ VarStatsCopy
    \/ DataCheckNone
    \/ DataCopy
    \/ FilterCheckNone
    \/ FilterCheckLocation
    \/ FilterReadLocation
    \/ FilterCheckVisit
    \/ FilterReadVisit
    \/ FilterReadColumns

SpecOverlap == InitOverlap /\ [][NextOverlap]_vars

\* C11: a read that overlaps an upload returns what it returns on one of the
\* datasets the store held during the call (the old one, the new one, or the
\* new one as get_summary has normalised it so far); it never fails on, or
\* mixes, two of them.
C11_SingleSnapshot ==
    pc.reader = "done" => \E d \in seen : res = ReadResult(args.call, d)

====
